---- MODULE Spec2Model ----
(***************************************************************************)
(* The browser-side controller of the detection front end.                 *)
(*                                                                         *)
(* Three variants of the controller script live in the repository:         *)
(*   src/unnamed/part_001  the API-integrated controller  (Spec, FairSpec) *)
(*   src/Main.js           the simulated controller with an input-mode     *)
(*                         renderer                        (SpecMain)      *)
(*   src/unnamed/part_000  the first simulated controller (not modelled:   *)
(*                         Main.js repeats its handlers)                   *)
(* They run against the same page, so the DOM variables are shared; each   *)
(* specification leaves the other variant's script variables untouched.    *)
(* SpecPresent is part_001 presenting one answer, over every confidence    *)
(* score; SpecEither is the page with either of the two scripts loaded.    *)
(*                                                                         *)
(* One action is one task of the browser's event loop: an event handler    *)
(* up to its first await, or the continuation of an await up to the next.  *)
(* Strings are the strings of the source, with non-ASCII letters           *)
(* transliterated and the constant icon markup around a text left out.     *)
(***************************************************************************)
EXTENDS Integers, Sequences, FiniteSets, TLC

VARIABLES
    currentLanguage,   \* part_001: let currentLanguage
    currentFile,       \* part_001: let currentFile
    currentTab,        \* part_001: let currentTab
    currentMode,       \* Main.js: let currentMode
    dropArea,          \* Main.js: the widget updateUploader put in #dropArea
    uploaderActive,    \* #uploader carries the class 'active'
    resultsActive,     \* #results carries the class 'active'
    checkBtnDisabled,  \* #checkBtn.disabled
    text,              \* textContent / innerHTML of the elements the scripts write
    langMenuDisplay,   \* #langMenu.style.display
    tabActive,         \* the tabs that carry the class 'active'
    accept,            \* the accept attribute of #fileInput
    progressWidth,     \* #progressFill.style.width
    timers,            \* pending setTimeout callbacks of the progress bar, oldest first
    calls,             \* invocations of the submit handler suspended at an await
    alertShown         \* the alert() the last handled event raised, "none" if none

vars == <<currentLanguage, currentFile, currentTab, currentMode, dropArea,
          uploaderActive, resultsActive, checkBtnDisabled, text, langMenuDisplay,
          tabActive, accept, progressWidth, timers, calls, alertShown>>

(***************************************************************************)
(* Bounds of the model.                                                    *)
(***************************************************************************)
\* Handler invocations that may be suspended at once before the model stops
\* accepting further submits (the code itself never has more than one).
MaxInFlight == 2
\* Progress-bar timers that may be pending when a submit is accepted.
MaxTimers == 1
\* The largest confidence_score the backend sends, in tenths of a percent.
MaxScore == 1000

(***************************************************************************)
(* Inputs.                                                                 *)
(***************************************************************************)
NoFile == "null"
Files == {"clip.mp4", "photo.png"}
FileType(f) ==
    CASE f = "clip.mp4"  -> "video/mp4"
      [] f = "photo.png" -> "image/png"
      [] OTHER           -> "application/pdf"
Tabs == {"text", "image", "video"}
\* The entries of the language menu the model clicks; "Setswana" stands for an
\* entry LANGUAGE_MAP does not know.
LangItems == {"isiZulu", "Setswana"}

(***************************************************************************)
(* Option values: {} is JavaScript's undefined, {v} is the value v.        *)
(***************************************************************************)
None == {}
Some(v) == {v}
The(opt) == CHOOSE v \in opt : TRUE
\* a || d for a string a that may be undefined
OrElse(opt, d) == IF opt = None \/ opt = Some("") THEN d ELSE The(opt)

(***************************************************************************)
(* part_001: LANGUAGE_MAP and the translation table.                       *)
(***************************************************************************)
LANGUAGE_MAP ==
    [English |-> "en", isiZulu |-> "zu", isiXhosa |-> "xh", Sesotho |-> "st",
     Afrikaans |-> "af"]

\* LANGUAGE_MAP[selectedLang] || 'en'
LanguageOf_noDefault(label) ==
    IF label \in DOMAIN LANGUAGE_MAP THEN LANGUAGE_MAP[label] ELSE "undefined"
LanguageOf(label) ==
    IF label \in DOMAIN LANGUAGE_MAP THEN LANGUAGE_MAP[label] ELSE "en"

allTranslations ==
    [en |-> [heroTitle     |-> "Protect yourself from AI-generated content",
             heroDesc      |-> "Analyze text, images, and videos to detect AI-generated content. Get education and insights to protect yourself from misinformation and scams.",
             tabText       |-> "Text",
             tabImage      |-> "Image",
             tabVideo      |-> "Video",
             checkBtn      |-> "Check Content",
             resultsTitle  |-> "Detection Results",
             whatYouCanDo  |-> "What You Can Do",
             howToSpot     |-> "How to Spot AI Content",
             footerText    |-> "Protecting South African communities from digital deception",
             fileSelected  |-> "File selected",
             noFileSelected |-> "No file selected"],
     zu |-> [heroTitle     |-> "Zivikele kokuqukethwe okudalwe yi-AI",
             heroDesc      |-> "Hlaziya umbhalo, izithombe, namavidiyo ukuthola okuqukethwe okudalwe yi-AI. Thola imfundo nolwazi lokuzivikela ekwaziseni okungalungile nasemakhameni.",
             tabText       |-> "Umbhalo",
             tabImage      |-> "Isithombe",
             tabVideo      |-> "Ividiyo",
             checkBtn      |-> "Hlola Okuqukethwe",
             resultsTitle  |-> "Imiphumela Yokuhlola",
             whatYouCanDo  |-> "Ongakwenza",
             howToSpot     |-> "Indlela Yokubona Okuqukethwe Kwe-AI",
             footerText    |-> "Sivikela imiphakathi yaseNingizimu Afrika ekukhohliseni kwedijithali",
             fileSelected  |-> "Ifayela likhethiwe",
             noFileSelected |-> "Alikho ifayela elikhethiwe"],
     xh |-> [heroTitle     |-> "Zikhusele kumxholo oveliswe yi-AI",
             heroDesc      |-> "Hlalutya umbhalo, imifanekiso, neevidiyo ukufumanisa umxholo oveliswe yi-AI. Fumana imfundo nolwazi lokuzikhusela kulwazi olungalunganga nakubuqhophololo.",
             tabText       |-> "Umbhalo",
             tabImage      |-> "Umfanekiso",
             tabVideo      |-> "Ividiyo",
             checkBtn      |-> "Hlola Umxholo",
             resultsTitle  |-> "Iziphumo Zokuhlola",
             whatYouCanDo  |-> "Into Onokuyenza",
             howToSpot     |-> "Indlela Yokubona Umxholo We-AI",
             footerText    |-> "Sikhusela uluntu lwaseMzantsi Afrika ekukhohliseni kwedijithali",
             fileSelected  |-> "Ifayile ikhethiwe",
             noFileSelected |-> "Akukho fayile ekhethiweyo"],
     st |-> [heroTitle     |-> "Itshireletse ho diteng tse hlahisitsweng ke AI",
             heroDesc      |-> "Manollo mongolo, ditshwantsho, le divideo ho fumana diteng tse hlahisitsweng ke AI. Fumana thuto le tsebo ya ho itshireletsa ho tshediso e fosahetseng le dikgoka.",
             tabText       |-> "Mongolo",
             tabImage      |-> "Setshwantsho",
             tabVideo      |-> "Video",
             checkBtn      |-> "Hlahloba Diteng",
             resultsTitle  |-> "Diphetho tsa Tlhahlobo",
             whatYouCanDo  |-> "Seo o ka se etsang",
             howToSpot     |-> "Mokhoa wa ho Bona Diteng tsa AI",
             footerText    |-> "Ho sireletsa sechaba sa Afrika Borwa ho tsietso ya dijithale",
             fileSelected  |-> "Faele e khethilwe",
             noFileSelected |-> "Ha ho faele e khethilweng"],
     af |-> [heroTitle     |-> "Beskerm jouself teen KI-gegenereerde inhoud",
             heroDesc      |-> "Ontleed teks, beelde en video's om KI-gegenereerde inhoud op te spoor. Kry opvoeding en insigte om jouself teen wanligting en boelstreke te beskerm.",
             tabText       |-> "Teks",
             tabImage      |-> "Beeld",
             tabVideo      |-> "Video",
             checkBtn      |-> "Kontroleer Inhoud",
             resultsTitle  |-> "Opsporingsresultate",
             whatYouCanDo  |-> "Wat Jy Kan Doen",
             howToSpot     |-> "Hoe om KI-inhoud te Herken",
             footerText    |-> "Beskerm Suid-Afrikaanse gemeenskappe teen digitale misleiding",
             fileSelected  |-> "Leer gekies",
             noFileSelected |-> "Geen leer gekies nie"]]

\* allTranslations[language] || allTranslations['en']
Trans(language) ==
    IF language \in DOMAIN allTranslations
    THEN allTranslations[language]
    ELSE allTranslations["en"]

(***************************************************************************)
(* The page before any script has written to it. The markup is not among   *)
(* the sources; the drop area's content is the one Main.js rebuilds in     *)
(* updateUploader, the static text is the English table's.                 *)
(***************************************************************************)
HtmlFileSubs == {"Choose a video file", "No file selected"}

HtmlText(fileSub) ==
    [protectBtn    |-> allTranslations["en"].heroTitle,
     heroDesc      |-> allTranslations["en"].heroDesc,
     textTab       |-> allTranslations["en"].tabText,
     imageTab      |-> allTranslations["en"].tabImage,
     videoTab      |-> allTranslations["en"].tabVideo,
     checkBtn      |-> allTranslations["en"].checkBtn,
     resultsTitle  |-> allTranslations["en"].resultsTitle,
     acc1Header    |-> allTranslations["en"].whatYouCanDo \o " ",
     acc2Header    |-> allTranslations["en"].howToSpot \o " ",
     footerPill    |-> allTranslations["en"].footerText,
     langBtn       |-> "English",
     fileName      |-> "No file selected",
     fileSub       |-> fileSub,
     fileIcon      |-> "video",
     statusIcon    |-> "(markup)",
     resultHeading |-> "(markup)",
     confidenceBadge |-> "(markup)",
     resultDesc    |-> "(markup)",
     resultCard    |-> "(markup)",
     acc1Body      |-> <<"(markup)">>,
     acc2Body      |-> <<"(markup)">>]

\* The slots displayResults writes.
Slots(t) ==
    <<t.statusIcon, t.resultHeading, t.confidenceBadge, t.resultDesc, t.resultCard,
      t.acc1Body>>

\* String.prototype.includes('selected'), over the values .file-sub can hold: the
\* markup's captions and the fileSelected / noFileSelected entries of the table.
IncludesSelected(s) == s \in {"File selected", "No file selected"}

(***************************************************************************)
(* part_001: translateUIElements(language). disabled is #checkBtn.disabled *)
(* at the call.                                                            *)
(***************************************************************************)
TranslateFileSub(t, trans) ==
    IF IncludesSelected(t.fileSub)
    THEN IF t.fileName # "No file selected" THEN trans.fileSelected
                                            ELSE trans.noFileSelected
    ELSE t.fileSub

TranslateCheckBtn(t, trans, disabled) ==
    IF ~disabled THEN trans.checkBtn ELSE t.checkBtn

translateUIElements(t, language, disabled) ==
    LET trans == Trans(language) IN
    [t EXCEPT !.protectBtn   = trans.heroTitle,
              !.heroDesc     = trans.heroDesc,
              !.textTab      = trans.tabText,
              !.imageTab     = trans.tabImage,
              !.videoTab     = trans.tabVideo,
              !.checkBtn     = TranslateCheckBtn(t, trans, disabled),
              !.resultsTitle = trans.resultsTitle,
              !.acc1Header   = trans.whatYouCanDo \o " ",
              !.acc2Header   = trans.howToSpot \o " ",
              !.footerPill   = trans.footerText,
              !.fileSub      = TranslateFileSub(t, trans)]

(***************************************************************************)
(* part_001: initLanguageDropdown.                                         *)
(***************************************************************************)
MainVars == <<currentMode, dropArea>>

langBtn_click ==
    /\ langMenuDisplay' = IF langMenuDisplay = "none" THEN "block" ELSE "none"
    /\ alertShown' = "none"
    /\ UNCHANGED <<currentLanguage, currentFile, currentTab, MainVars, uploaderActive,
                   resultsActive, checkBtnDisabled, text, tabActive, accept,
                   progressWidth, timers, calls>>

\* A click outside the menu and the button that no other listener handles.
document_click ==
    /\ langMenuDisplay' = "none"
    /\ alertShown' = "none"
    /\ UNCHANGED <<currentLanguage, currentFile, currentTab, MainVars, uploaderActive,
                   resultsActive, checkBtnDisabled, text, tabActive, accept,
                   progressWidth, timers, calls>>

\* The entries are inside the menu, so the document listener leaves the menu alone.
langItem_click(selectedLang) ==
    /\ currentLanguage' = LanguageOf(selectedLang)
    /\ langMenuDisplay' = "none"
    /\ text' = translateUIElements([text EXCEPT !.langBtn = selectedLang],
                                   LanguageOf(selectedLang), checkBtnDisabled)
    /\ alertShown' = "none"
    /\ UNCHANGED <<currentFile, currentTab, MainVars, uploaderActive, resultsActive,
                   checkBtnDisabled, tabActive, accept, progressWidth, timers, calls>>

(***************************************************************************)
(* part_001: initTabs. A tab is outside the language menu, so the click    *)
(* also reaches the document listener, which closes the menu.              *)
(***************************************************************************)
AcceptOf(tab) ==
    CASE tab = "text"  -> ".txt,.pdf,.docx,.doc"
      [] tab = "image" -> ".jpg,.jpeg,.png,.webp,.bmp"
      [] tab = "video" -> ".mp4,.mov,.avi,.mkv,.webm"

\* The handler touches neither currentFile nor #fileName.
tab_click_keepActive(tab) ==
    /\ tabActive' = tabActive \cup {tab}
    /\ currentTab' = tab
    /\ accept' = AcceptOf(tab)
    /\ langMenuDisplay' = "none"
    /\ alertShown' = "none"
    /\ UNCHANGED <<currentLanguage, currentFile, MainVars, uploaderActive, resultsActive,
                   checkBtnDisabled, text, progressWidth, timers, calls>>
tab_click(tab) ==
    /\ tabActive' = {tab}
    /\ currentTab' = tab
    /\ accept' = AcceptOf(tab)
    /\ langMenuDisplay' = "none"
    /\ alertShown' = "none"
    /\ UNCHANGED <<currentLanguage, currentFile, MainVars, uploaderActive, resultsActive,
                   checkBtnDisabled, text, progressWidth, timers, calls>>

(***************************************************************************)
(* part_001: initFileUpload, the file input and the drop area.             *)
(***************************************************************************)
\* file.type.startsWith('video/'), then startsWith('image/'), over FileType's values
IconOf(file) ==
    IF FileType(file) = "video/mp4" THEN "video"
    ELSE IF FileType(file) = "image/png" THEN "image"
    ELSE "document"

\* file is e.target.files[0]; NoFile when the list is empty.
fileInput_change(file) ==
    /\ IF file # NoFile
       THEN /\ currentFile' = file
            /\ text' = [text EXCEPT !.fileName = file, !.fileIcon = IconOf(file)]
       ELSE UNCHANGED <<currentFile, text>>
    /\ alertShown' = "none"
    /\ UNCHANGED <<currentLanguage, currentTab, MainVars, uploaderActive, resultsActive,
                   checkBtnDisabled, langMenuDisplay, tabActive, accept, progressWidth,
                   timers, calls>>

\* fileInput.files = e.dataTransfer.files, then the change event, handled at once.
dropArea_drop_noDispatch(file) ==
    /\ alertShown' = "none"
    /\ UNCHANGED <<currentLanguage, currentFile, currentTab, MainVars, uploaderActive,
                   resultsActive, checkBtnDisabled, text, langMenuDisplay, tabActive,
                   accept, progressWidth, timers, calls>>
dropArea_drop(file) ==
    /\ IF file # NoFile
       THEN /\ currentFile' = file
            /\ text' = [text EXCEPT !.fileName = file, !.fileIcon = IconOf(file)]
       ELSE UNCHANGED <<currentFile, text>>
    /\ alertShown' = "none"
    /\ UNCHANGED <<currentLanguage, currentTab, MainVars, uploaderActive, resultsActive,
                   checkBtnDisabled, langMenuDisplay, tabActive, accept, progressWidth,
                   timers, calls>>

clearBtn_click ==
    /\ currentFile' = NoFile
    /\ text' = [text EXCEPT !.fileName = "No file selected"]
    /\ uploaderActive' = TRUE
    /\ resultsActive' = FALSE
    /\ langMenuDisplay' = "none"
    /\ alertShown' = "none"
    /\ UNCHANGED <<currentLanguage, currentTab, MainVars, checkBtnDisabled, tabActive,
                   accept, progressWidth, timers, calls>>

(***************************************************************************)
(* The backend's answers the model draws from. A body is what              *)
(* response.json() gives: valid is FALSE when it rejects; detection_result *)
(* is the nested object, its fields undefined when the backend left them   *)
(* out. confidence_score is in tenths of a percent.                        *)
(***************************************************************************)
DetectionAI ==
    [is_ai_generated  |-> Some(TRUE),
     confidence_score |-> Some(914),
     message          |-> Some("AI content detected"),
     warning          |-> Some("Be careful with this content"),
     confidence_label |-> Some("Certainty")]

DetectionHuman ==
    [is_ai_generated  |-> Some(FALSE),
     confidence_score |-> Some(625),
     message          |-> None,
     warning          |-> None,
     confidence_label |-> None]

DetectionEmpty ==
    [is_ai_generated  |-> None,
     confidence_score |-> None,
     message          |-> None,
     warning          |-> None,
     confidence_label |-> None]

Bodies ==
    {[valid |-> TRUE,  detection_result |-> Some(DetectionAI)],
     [valid |-> TRUE,  detection_result |-> Some(DetectionHuman)],
     [valid |-> TRUE,  detection_result |-> Some(DetectionEmpty)],
     [valid |-> TRUE,  detection_result |-> None],
     [valid |-> FALSE, detection_result |-> None]}

\* How a fetch ends: a success status, another status, or a rejected promise.
Outcomes == {"ok", "http_error", "rejected"}

(***************************************************************************)
(* part_001: analyzeVideo, analyzeImage, analyzeDocument.                  *)
(***************************************************************************)
\* The request the function the handler picks for the tab sends; phase is the
\* await the invocation is suspended at.
Request_defaultLanguage(tab, file, language) ==
    [url      |-> CASE tab = "video" -> "/api/detect-with-audio"
                    [] tab = "image" -> "/api/detect-image"
                    [] tab = "text"  -> "/api/detect-document",
     language |-> "en",
     file     |-> file,
     type     |-> CASE tab = "video" -> "video"
                    [] tab = "image" -> "image"
                    [] tab = "text"  -> "document",
     phase    |-> "fetch"]
Request(tab, file, language) ==
    [url      |-> CASE tab = "video" -> "/api/detect-with-audio"
                    [] tab = "image" -> "/api/detect-image"
                    [] tab = "text"  -> "/api/detect-document",
     language |-> language,
     file     |-> file,
     type     |-> CASE tab = "video" -> "video"
                    [] tab = "image" -> "image"
                    [] tab = "text"  -> "document",
     phase    |-> "fetch"]

\* if (!response.ok) throw; a rejected fetch throws at the await
ResponseOk_anyStatus(outcome) == outcome # "rejected"
ResponseOk(outcome) == outcome = "ok"

\* data.detection_result.is_ai_generated throws when detection_result is undefined
BodyThrows(body) == ~body.valid \/ body.detection_result = None

\* the record the function returns
Normalize_currentTab(type, body) ==
    LET d == The(body.detection_result) IN
    [type            |-> IF currentTab = "text" THEN "document" ELSE currentTab,
     isAI            |-> d.is_ai_generated,
     confidence      |-> d.confidence_score,
     message         |-> OrElse(d.message, ""),
     warning         |-> OrElse(d.warning, ""),
     confidenceLabel |-> OrElse(d.confidence_label, "Confidence")]
Normalize(type, body) ==
    LET d == The(body.detection_result) IN
    [type            |-> type,
     isAI            |-> d.is_ai_generated,
     confidence      |-> d.confidence_score,
     message         |-> OrElse(d.message, ""),
     warning         |-> OrElse(d.warning, ""),
     confidenceLabel |-> OrElse(d.confidence_label, "Confidence")]

(***************************************************************************)
(* part_001: displayResults and updateAccordionContent.                    *)
(***************************************************************************)
\* Math.round of a score in tenths; Math.round(undefined) is NaN
RoundScore_floor(confidence) ==
    IF confidence = None THEN "NaN" ELSE ToString(The(confidence) \div 10)
RoundScore(confidence) ==
    IF confidence = None THEN "NaN" ELSE ToString((The(confidence) + 5) \div 10)

DefaultDesc(isAI, type) ==
    IF isAI
    THEN CASE type = "video" -> "This video shows patterns consistent with AI generation. Look for unnatural movements, inconsistent lighting, or irregular facial features."
           [] type = "image" -> "This image appears to be AI-generated. Check for distorted hands, unusual textures, or impossible reflections."
           [] OTHER          -> "This text shows characteristics typical of AI writing. Notice the formal tone and lack of personal anecdotes."
    ELSE CASE type = "video" -> "The video displays natural motion, consistent lighting across frames, and authentic audio synchronization."
           [] type = "image" -> "This image shows characteristics of authentic photography with natural lighting and proper perspective."
           [] OTHER          -> "This text demonstrates natural human writing patterns with varied sentence structure and personal voice."

updateAccordionContent(isAI) ==
    IF isAI
    THEN <<"Verify information from multiple trusted sources",
           "Look for the original source or creator",
           "Be cautious about sharing this content",
           "Report suspicious content to relevant platforms">>
    ELSE <<"This appears human-created, but always verify important information",
           "Check for updated information from the original source",
           "Consider the context and timing of the content">>

displayResults(t, result) ==
    LET isAI == result.isAI = Some(TRUE)
        confidence == RoundScore(result.confidence)
        label == IF result.confidenceLabel = "" THEN "Confidence"
                                              ELSE result.confidenceLabel
    IN
    [t EXCEPT !.statusIcon = IF isAI THEN "warning" ELSE "check",
              !.resultCard = IF isAI THEN "ai-result" ELSE "human-result",
              !.resultHeading =
                  IF result.message # "" THEN result.message
                  ELSE IF isAI THEN "Likely AI-Generated" ELSE "Likely Human-Created",
              !.confidenceBadge = label \o ": " \o confidence \o "%",
              !.resultDesc =
                  IF result.warning # "" THEN result.warning
                  ELSE DefaultDesc(isAI, result.type),
              !.acc1Body = updateAccordionContent(isAI)]

\* progressFill.style.width = confidence + '%' in the timer; the style ignores a
\* value that is no length, such as 'NaN%'
SetWidth(width, confidence) ==
    IF confidence = "NaN" THEN width ELSE confidence \o "%"

progress_timeout ==
    /\ timers # <<>>
    /\ progressWidth' = SetWidth(progressWidth, Head(timers))
    /\ timers' = Tail(timers)
    /\ alertShown' = "none"
    /\ UNCHANGED <<currentLanguage, currentFile, currentTab, MainVars, uploaderActive,
                   resultsActive, checkBtnDisabled, text, langMenuDisplay, tabActive,
                   accept, calls>>

(***************************************************************************)
(* part_001: the submit handler (checkBtn click) and its continuations.    *)
(***************************************************************************)
RemoveAt(seq, i) == SubSeq(seq, 1, i - 1) \o SubSeq(seq, i + 1, Len(seq))

\* if (!currentFile)
EmptyInput_never == FALSE
EmptyInput == currentFile = NoFile

\* checkBtn.disabled = true; checkBtn.textContent = 'Analyzing...'
LoadingState_enabled(t) ==
    [disabled |-> FALSE, text |-> [t EXCEPT !.checkBtn = "Analyzing..."]]
LoadingState(t) ==
    [disabled |-> TRUE, text |-> [t EXCEPT !.checkBtn = "Analyzing..."]]

\* finally { checkBtn.disabled = false; checkBtn.textContent = 'Check Content' }
Finally_noEnable(t) ==
    [disabled |-> TRUE, text |-> [t EXCEPT !.checkBtn = "Check Content"]]
Finally(t) ==
    [disabled |-> FALSE, text |-> [t EXCEPT !.checkBtn = "Check Content"]]

\* A disabled button dispatches no click event: neither the handler nor the
\* document listener runs. Otherwise the handler runs up to the fetch of the
\* function it picks, and the click then reaches the document listener.
checkBtn_click ==
    IF checkBtnDisabled
    THEN /\ alertShown' = "none"
         /\ UNCHANGED <<currentLanguage, currentFile, currentTab, MainVars,
                        uploaderActive, resultsActive, checkBtnDisabled, text,
                        langMenuDisplay, tabActive, accept, progressWidth, timers,
                        calls>>
    ELSE IF EmptyInput
    THEN /\ alertShown' = "Please select a file first!"
         /\ langMenuDisplay' = "none"
         /\ UNCHANGED <<currentLanguage, currentFile, currentTab, MainVars,
                        uploaderActive, resultsActive, checkBtnDisabled, text,
                        tabActive, accept, progressWidth, timers, calls>>
    ELSE /\ Len(calls) < MaxInFlight
         /\ Len(timers) < MaxTimers
         /\ checkBtnDisabled' = LoadingState(text).disabled
         /\ text' = LoadingState(text).text
         /\ calls' = Append(calls, Request(currentTab, currentFile, currentLanguage))
         /\ langMenuDisplay' = "none"
         /\ alertShown' = "none"
         /\ UNCHANGED <<currentLanguage, currentFile, currentTab, MainVars,
                        uploaderActive, resultsActive, tabActive, accept,
                        progressWidth, timers>>

\* catch (error) { alert(`Error: ${error.message}`) } finally { ... }
Failed(i, message) ==
    /\ alertShown' = "Error: " \o message
    /\ checkBtnDisabled' = Finally(text).disabled
    /\ text' = Finally(text).text
    /\ calls' = RemoveAt(calls, i)
    /\ UNCHANGED <<currentLanguage, currentFile, currentTab, MainVars, uploaderActive,
                   resultsActive, langMenuDisplay, tabActive, accept, progressWidth,
                   timers>>

\* displayResults(result); the panels are switched; finally { ... }
Succeeded(i, result) ==
    /\ text' = Finally(displayResults(text, result)).text
    /\ progressWidth' = "0%"
    /\ timers' = Append(timers, RoundScore(result.confidence))
    /\ uploaderActive' = FALSE
    /\ resultsActive' = TRUE
    /\ checkBtnDisabled' = Finally(text).disabled
    /\ calls' = RemoveAt(calls, i)
    /\ alertShown' = "none"
    /\ UNCHANGED <<currentLanguage, currentFile, currentTab, MainVars, langMenuDisplay,
                   tabActive, accept>>

\* The fetch of invocation i settles.
fetch_settles(i, outcome) ==
    /\ i \in 1..Len(calls)
    /\ calls[i].phase = "fetch"
    /\ IF ResponseOk(outcome)
       THEN /\ calls' = [calls EXCEPT ![i].phase = "json"]
            /\ alertShown' = "none"
            /\ UNCHANGED <<currentLanguage, currentFile, currentTab, MainVars,
                           uploaderActive, resultsActive, checkBtnDisabled, text,
                           langMenuDisplay, tabActive, accept, progressWidth, timers>>
       ELSE Failed(i, IF outcome = "rejected" THEN "Failed to fetch"
                                              ELSE "HTTP error! status: 500")

\* response.json() of invocation i settles with body.
json_settles(i, body) ==
    /\ i \in 1..Len(calls)
    /\ calls[i].phase = "json"
    /\ IF BodyThrows(body)
       THEN Failed(i, IF body.valid THEN "Cannot read properties of undefined"
                                    ELSE "Unexpected token in JSON")
       ELSE Succeeded(i, Normalize(calls[i].type, body))

(***************************************************************************)
(* part_001: the page after initializeApp, and the specification.          *)
(***************************************************************************)
Init ==
    /\ currentLanguage = "en"
    /\ currentFile = NoFile
    /\ currentTab = "video"
    /\ currentMode = "(not loaded)"
    /\ dropArea = "(markup)"
    /\ uploaderActive = TRUE
    /\ resultsActive = FALSE
    /\ checkBtnDisabled = FALSE
    /\ text \in {HtmlText(s) : s \in HtmlFileSubs}
    /\ langMenuDisplay = "none"
    /\ tabActive = {"video"}
    /\ accept = "(markup)"
    /\ progressWidth = "(markup)"
    /\ timers = <<>>
    /\ calls = <<>>
    /\ alertShown = "none"

Settles ==
    \/ \E i \in 1..MaxInFlight, outcome \in Outcomes : fetch_settles(i, outcome)
    \/ \E i \in 1..MaxInFlight, body \in Bodies : json_settles(i, body)

\* The events of the page, with the files the user picks and the menu entries
\* the user clicks drawn from files and langItems.
NextOver(files, langItems) ==
    \/ langBtn_click
    \/ document_click
    \/ \E selectedLang \in langItems : langItem_click(selectedLang)
    \/ \E tab \in Tabs : tab_click(tab)
    \/ \E file \in files \cup {NoFile} : fileInput_change(file)
    \/ \E file \in files \cup {NoFile} : dropArea_drop(file)
    \/ clearBtn_click
    \/ checkBtn_click
    \/ Settles
    \/ progress_timeout

Next == NextOver(Files, LangItems)

Spec == Init /\ [][Next]_vars

\* The same page with one file and one menu entry to pick, under the scheduling
\* the claims about progress assume: every request the backend holds is answered
\* or fails in the end, and the browser runs the continuation of a settled promise.
FairFiles == {"photo.png"}
FairLangItems == {"isiZulu"}
FairNext == NextOver(FairFiles, FairLangItems)

FairSpec == Init /\ [][FairNext]_vars /\ WF_vars(Settles)

(***************************************************************************)
(* part_001: the presentation of one answer. The page is the one a submit  *)
(* of clip.mp4 on the video tab leaves at the await of response.json();    *)
(* the backend's body is DetectionAI or DetectionHuman with any            *)
(* confidence_score from 0 to 100 percent, in tenths.                      *)
(***************************************************************************)
Scores == 0..MaxScore

ScoredBodies ==
    {[valid |-> TRUE,
      detection_result |-> Some([d EXCEPT !.confidence_score = Some(score)])] :
        d \in {DetectionAI, DetectionHuman}, score \in Scores}

InitPresent ==
    /\ currentLanguage = "en"
    /\ currentFile = "clip.mp4"
    /\ currentTab = "video"
    /\ currentMode = "(not loaded)"
    /\ dropArea = "(markup)"
    /\ uploaderActive = TRUE
    /\ resultsActive = FALSE
    /\ text = LoadingState([HtmlText("Choose a video file") EXCEPT
                               !.fileName = "clip.mp4",
                               !.fileIcon = IconOf("clip.mp4")]).text
    /\ checkBtnDisabled = LoadingState(text).disabled
    /\ langMenuDisplay = "none"
    /\ tabActive = {"video"}
    /\ accept = "(markup)"
    /\ progressWidth = "(markup)"
    /\ timers = <<>>
    /\ calls = <<[Request("video", "clip.mp4", "en") EXCEPT !.phase = "json"]>>
    /\ alertShown = "none"

NextPresent ==
    \/ \E body \in ScoredBodies : json_settles(1, body)
    \/ progress_timeout

SpecPresent == InitPresent /\ [][NextPresent]_vars

(***************************************************************************)
(* Main.js: the simulated controller. It keeps no language and no staged   *)
(* file of its own; the staged input is the value of the widget            *)
(* updateUploader builds.                                                  *)
(***************************************************************************)
ApiVars == <<currentLanguage, currentFile, currentTab, checkBtnDisabled, accept, calls>>

\* The widget and the captions updateUploader(mode) puts in #dropArea. In text
\* mode the drop area holds the textarea alone.
Widget(mode) ==
    IF mode = "text"
    THEN [kind |-> "textarea", accept |-> "", value |-> ""]
    ELSE [kind |-> "file",
          accept |-> IF mode = "image" THEN "image/*" ELSE "video/*",
          value |-> NoFile]

updateUploader(t, mode) ==
    IF mode = "text"
    THEN [t EXCEPT !.fileName = "(absent)", !.fileSub = "(absent)",
                   !.fileIcon = "(absent)"]
    ELSE [t EXCEPT !.fileName = "No file selected",
                   !.fileSub = "Choose a " \o mode \o " file",
                   !.fileIcon = IF mode = "image" THEN "image" ELSE "video"]

\* const isHidden = langMenu.style.display === 'block'
Main_langBtn_click ==
    /\ langMenuDisplay' = IF langMenuDisplay = "block" THEN "none" ELSE "block"
    /\ UNCHANGED <<ApiVars, MainVars, uploaderActive, resultsActive, text, tabActive,
                   progressWidth, timers, alertShown>>

Main_document_click ==
    /\ langMenuDisplay' = "none"
    /\ UNCHANGED <<ApiVars, MainVars, uploaderActive, resultsActive, text, tabActive,
                   progressWidth, timers, alertShown>>

Main_langItem_click(label) ==
    /\ text' = [text EXCEPT !.langBtn = label]
    /\ langMenuDisplay' = "none"
    /\ UNCHANGED <<ApiVars, MainVars, uploaderActive, resultsActive, tabActive,
                   progressWidth, timers, alertShown>>

Main_tab_click(mode) ==
    /\ tabActive' = {mode}
    /\ currentMode' = mode
    /\ dropArea' = Widget(mode)
    /\ text' = updateUploader(text, mode)
    /\ langMenuDisplay' = "none"
    /\ UNCHANGED <<ApiVars, uploaderActive, resultsActive, progressWidth, timers,
                   alertShown>>

\* The change listener of the file input updateUploader created.
Main_newInput_change(file) ==
    /\ dropArea.kind = "file"
    /\ dropArea' = [dropArea EXCEPT !.value = file]
    /\ text' = [text EXCEPT !.fileName = IF file # NoFile THEN file
                                         ELSE "No file selected"]
    /\ UNCHANGED <<ApiVars, currentMode, uploaderActive, resultsActive, langMenuDisplay,
                   tabActive, progressWidth, timers, alertShown>>

\* Typing in the textarea; no listener is attached to it.
Main_textArea_input(value) ==
    /\ dropArea.kind = "textarea"
    /\ dropArea' = [dropArea EXCEPT !.value = value]
    /\ UNCHANGED <<ApiVars, currentMode, uploaderActive, resultsActive, text,
                   langMenuDisplay, tabActive, progressWidth, timers, alertShown>>

Main_clearBtn_click ==
    /\ dropArea' = Widget(currentMode)
    /\ text' = updateUploader(text, currentMode)
    /\ uploaderActive' = TRUE
    /\ resultsActive' = FALSE
    /\ langMenuDisplay' = "none"
    /\ UNCHANGED <<ApiVars, currentMode, tabActive, progressWidth, timers, alertShown>>

\* uploader.classList.add('active'); results.classList.add('active')
Main_checkBtn_click ==
    /\ Len(timers) < MaxTimers
    /\ uploaderActive' = TRUE
    /\ resultsActive' = TRUE
    /\ text' = [text EXCEPT
           !.statusIcon = "check",
           !.resultHeading = "Likely Human-Created",
           !.confidenceBadge = "Confidence: " \o ToString(91) \o "%",
           !.resultDesc =
               IF currentMode = "text"
               THEN "The writing style appears natural and contextually coherent."
               ELSE IF currentMode = "image"
               THEN "The image shows realistic lighting, proportions, and metadata."
               ELSE "The video displays natural motion and authentic audio sync."]
    /\ progressWidth' = "0%"
    /\ timers' = Append(timers, ToString(91))
    /\ langMenuDisplay' = "none"
    /\ UNCHANGED <<ApiVars, MainVars, tabActive, alertShown>>

Main_progress_timeout ==
    /\ timers # <<>>
    /\ progressWidth' = SetWidth(progressWidth, Head(timers))
    /\ timers' = Tail(timers)
    /\ UNCHANGED <<ApiVars, MainVars, uploaderActive, resultsActive, text,
                   langMenuDisplay, tabActive, alertShown>>

\* The page after the script has run: updateUploader('video') at load.
InitMain ==
    /\ currentLanguage = "(not loaded)"
    /\ currentFile = NoFile
    /\ currentTab = "(not loaded)"
    /\ currentMode = "video"
    /\ dropArea = Widget("video")
    /\ uploaderActive = TRUE
    /\ resultsActive = FALSE
    /\ checkBtnDisabled = FALSE
    /\ text = updateUploader(HtmlText("(markup)"), "video")
    /\ langMenuDisplay = "none"
    /\ tabActive = {"video"}
    /\ accept = "(not loaded)"
    /\ progressWidth = "(markup)"
    /\ timers = <<>>
    /\ calls = <<>>
    /\ alertShown = "none"

NextMain ==
    \/ Main_langBtn_click
    \/ Main_document_click
    \/ \E label \in LangItems : Main_langItem_click(label)
    \/ \E mode \in Tabs : Main_tab_click(mode)
    \/ \E file \in Files \cup {NoFile} : Main_newInput_change(file)
    \/ \E value \in {"", "pasted text"} : Main_textArea_input(value)
    \/ Main_clearBtn_click
    \/ Main_checkBtn_click
    \/ Main_progress_timeout

SpecMain == InitMain /\ [][NextMain]_vars

(***************************************************************************)
(* The page with either controller loaded: part_001 or Main.js. Main.js    *)
(* alone sets currentMode, at load, so it tells which script runs.         *)
(***************************************************************************)
MainLoaded == currentMode # "(not loaded)"

InitEither == Init \/ InitMain

NextEither ==
    \/ ~MainLoaded /\ Next
    \/ MainLoaded /\ NextMain

SpecEither == InitEither /\ [][NextEither]_vars

(***************************************************************************)
(* Vocabulary of the properties.                                           *)
(***************************************************************************)
EmptyInputPrompt == "Please select a file first!"
FetchErrorAlerts == {"Error: Failed to fetch", "Error: HTTP error! status: 500"}
ErrorAlerts ==
    FetchErrorAlerts \cup {"Error: Cannot read properties of undefined",
                           "Error: Unexpected token in JSON"}

\* Everything but the alert of the last event.
StateVars ==
    <<currentLanguage, currentFile, currentTab, currentMode, dropArea, uploaderActive,
      resultsActive, checkBtnDisabled, text, langMenuDisplay, tabActive, accept,
      progressWidth, timers, calls>>

\* The hero copy, the tab labels, the accordion headers and the footer of t are
\* those of language.
StaticTextIn(t, language) ==
    /\ t.protectBtn = Trans(language).heroTitle
    /\ t.heroDesc = Trans(language).heroDesc
    /\ t.textTab = Trans(language).tabText
    /\ t.imageTab = Trans(language).tabImage
    /\ t.videoTab = Trans(language).tabVideo
    /\ t.acc1Header = Trans(language).whatYouCanDo \o " "
    /\ t.acc2Header = Trans(language).howToSpot \o " "
    /\ t.footerPill = Trans(language).footerText

\* A response whose detection_result holds neither core field.
MalformedBody == [valid |-> TRUE, detection_result |-> Some(DetectionEmpty)]

(***************************************************************************)
(* C1. part_001: at most one detection request is in flight in every       *)
(* reachable state, and while one is pending a submit click can be         *)
(* performed and every such click leaves the whole state as it is (no      *)
(* second network call).                                                   *)
(***************************************************************************)
C1_AtMostOneInFlight ==
    /\ Len(calls) <= 1
    /\ Len(calls) > 0 =>
          /\ ENABLED checkBtn_click
          /\ ~ENABLED (checkBtn_click /\ StateVars' # StateVars)

\* A request is pending, past its first await, and the user has meanwhile staged
\* another file, so that a click would dispatch were the control not disabled.
C1_Witness ==
    /\ Len(calls) = 1
    /\ calls[1].phase = "json"
    /\ currentFile # NoFile
    /\ currentFile # calls[1].file

(***************************************************************************)
(* C2. part_001: the submit control is disabled exactly while a request is *)
(* pending; every step that settles the pending request (success, HTTP     *)
(* failure, transport failure, an exception while parsing) leaves it       *)
(* enabled; and if every request eventually settles, a disabled submit     *)
(* control always eventually becomes enabled again.                        *)
(***************************************************************************)
C2_DisabledWhilePending ==
    /\ [](checkBtnDisabled <=> Len(calls) > 0)
    /\ [][Len(calls') < Len(calls) => ~checkBtnDisabled']_vars
    /\ (checkBtnDisabled ~> ~checkBtnDisabled)

\* The control is enabled again after a request that succeeded.
C2_Witness ==
    /\ ~checkBtnDisabled
    /\ calls = <<>>
    /\ resultsActive
    /\ text.checkBtn = "Check Content"

(***************************************************************************)
(* C3 as stated. part_001: in any reachable state where currentFile is     *)
(* null, a submit click shows the blocking prompt, sends no request, does  *)
(* not disable the control and leaves panel, mode, language and staged     *)
(* input unchanged.                                                        *)
(***************************************************************************)
C3_Original ==
    currentFile = NoFile =>
        ENABLED (/\ checkBtn_click
                 /\ alertShown' = EmptyInputPrompt
                 /\ UNCHANGED <<calls, checkBtnDisabled, uploaderActive, resultsActive,
                                currentTab, currentLanguage, currentFile, text>>)

(***************************************************************************)
(* C3 as amended. part_001: where currentFile is null and no request is    *)
(* pending, every submit click shows the blocking prompt, sends no         *)
(* request, does not disable the control and leaves panel, mode, language  *)
(* and staged input unchanged; where currentFile is null and a request is  *)
(* pending, the click is ignored: no prompt, no request, no change.        *)
(***************************************************************************)
C3_EmptyInputPrompt ==
    currentFile = NoFile =>
        /\ ENABLED checkBtn_click
        /\ ~ENABLED (/\ checkBtn_click
                     /\ \/ alertShown' # (IF Len(calls) = 0 THEN EmptyInputPrompt
                                                            ELSE "none")
                        \/ <<calls, checkBtnDisabled, uploaderActive, resultsActive,
                             currentTab, currentLanguage, currentFile, text>>'
                           # <<calls, checkBtnDisabled, uploaderActive, resultsActive,
                               currentTab, currentLanguage, currentFile, text>>)

\* The prompt has been shown after a result had been presented and cleared.
C3_Witness ==
    /\ alertShown = EmptyInputPrompt
    /\ currentFile = NoFile
    /\ calls = <<>>
    /\ text.statusIcon # "(markup)"
    /\ uploaderActive /\ ~resultsActive

(***************************************************************************)
(* C4. part_001: when the fetch of the pending request ends with a         *)
(* non-success status or is rejected, the step shows an error alert,       *)
(* leaves the submit control enabled, leaves both panels' 'active' class   *)
(* as they were (a view in Uploading stays in Uploading) and writes no     *)
(* result slot, nor the progress bar.                                      *)
(***************************************************************************)
C4_FailureKeepsUploading ==
    \A i \in 1..Len(calls) :
        calls[i].phase = "fetch" =>
            \A outcome \in {"http_error", "rejected"} :
                /\ ENABLED fetch_settles(i, outcome)
                /\ ~ENABLED (/\ fetch_settles(i, outcome)
                             /\ \/ alertShown' \notin FetchErrorAlerts
                                \/ checkBtnDisabled'
                                \/ uploaderActive' # uploaderActive
                                \/ resultsActive' # resultsActive
                                \/ Slots(text') # Slots(text)
                                \/ progressWidth' # progressWidth
                                \/ timers' # timers)

\* A fetch has failed and the view is in Uploading with the control enabled.
C4_Witness ==
    /\ alertShown \in FetchErrorAlerts
    /\ ~checkBtnDisabled
    /\ uploaderActive /\ ~resultsActive
    /\ currentFile # NoFile

(***************************************************************************)
(* C5. part_001: a success-status response whose detection_result lacks    *)
(* is_ai_generated and confidence_score is treated as NetworkError: the    *)
(* step that handles the body shows the error alert, presents no result    *)
(* and leaves the panels as they were.                                     *)
(***************************************************************************)
C5_MalformedIsError ==
    \A i \in 1..Len(calls) :
        calls[i].phase = "json" =>
            ~ENABLED (/\ json_settles(i, MalformedBody)
                      /\ \/ alertShown' \notin ErrorAlerts
                         \/ uploaderActive' # uploaderActive
                         \/ resultsActive' # resultsActive
                         \/ Slots(text') # Slots(text))

(***************************************************************************)
(* C6. From the initial Uploading state on, the results panel becomes      *)
(* active, and result slots are written, only by a step in which a         *)
(* dispatched request succeeded; the results panel stops being active only *)
(* by a clear.                                                             *)
(***************************************************************************)
DispatchSucceeded ==
    \E i \in 1..Len(calls), body \in Bodies :
        ~BodyThrows(body) /\ json_settles(i, body)

C6_PanelMachine ==
    [][/\ (~resultsActive /\ resultsActive') => DispatchSucceeded
       /\ Slots(text') # Slots(text) => DispatchSucceeded
       /\ (resultsActive /\ ~resultsActive') =>
              (clearBtn_click \/ Main_clearBtn_click)]_vars

(***************************************************************************)
(* C7. In every reachable state of every controller variant exactly one of *)
(* the panels #uploader and #results carries the class 'active'.           *)
(***************************************************************************)
C7_ExactlyOnePanel == uploaderActive # resultsActive

(***************************************************************************)
(* C8. part_001: a tab click that selects a mode other than the current    *)
(* one leaves the staged input empty: currentFile is null and the          *)
(* file-name indicator shows no file.                                      *)
(***************************************************************************)
C8_ModeSwitchDiscards ==
    [][\A tab \in Tabs :
          (tab # currentTab /\ tab_click(tab)) =>
              (currentFile' = NoFile /\ text'.fileName = "No file selected")]_vars

(***************************************************************************)
(* C9. part_001: a clear, from any reachable state, leaves the panel in    *)
(* Uploading, the staged input empty and the file-name caption showing the *)
(* active language's "no file selected" text.                              *)
(***************************************************************************)
C9_ClearResets ==
    [][clearBtn_click =>
          /\ uploaderActive' /\ ~resultsActive'
          /\ currentFile' = NoFile
          /\ text'.fileName = Trans(currentLanguage').noFileSelected]_vars

(***************************************************************************)
(* C10. part_001: after every language selection the hero copy, the tab    *)
(* labels, the accordion headers and the footer are in the selected        *)
(* language, and if a file is staged the file-status caption shows that    *)
(* language's "file selected" text.                                        *)
(***************************************************************************)
C10_Relocalized ==
    [][\A selectedLang \in LangItems :
          langItem_click(selectedLang) =>
              /\ StaticTextIn(text', currentLanguage')
              /\ currentFile' # NoFile =>
                     text'.fileSub = Trans(currentLanguage').fileSelected]_vars

\* The endpoint of each input mode.
EndpointOf(tab) ==
    CASE tab = "video" -> "/api/detect-with-audio"
      [] tab = "image" -> "/api/detect-image"
      [] tab = "text"  -> "/api/detect-document"

(***************************************************************************)
(* C11. part_001: every accepted submit (a click on the enabled control    *)
(* with a file staged) issues exactly one request, to the endpoint of the  *)
(* mode active at the click, carrying the staged file and the language     *)
(* code active at the click; the requests already pending are left as they *)
(* are, and no other step issues a request.                                *)
(***************************************************************************)
C11_OneRequestPerSubmit ==
    [][/\ (checkBtn_click /\ ~checkBtnDisabled /\ currentFile # NoFile) =>
              /\ Len(calls') = Len(calls) + 1
              /\ SubSeq(calls', 1, Len(calls)) = calls
              /\ calls'[Len(calls')].url = EndpointOf(currentTab)
              /\ calls'[Len(calls')].file = currentFile
              /\ calls'[Len(calls')].language = currentLanguage
              /\ calls'[Len(calls')].phase = "fetch"
       /\ Len(calls') > Len(calls) =>
              (checkBtn_click /\ ~checkBtnDisabled /\ currentFile # NoFile)]_vars

\* A video file staged on the image tab has been submitted in isiZulu.
C11_Witness ==
    /\ Len(calls) = 1
    /\ calls[1].url = "/api/detect-image"
    /\ calls[1].file = "clip.mp4"
    /\ calls[1].language = "zu"
    /\ calls[1].phase = "fetch"
    /\ currentTab = "image" /\ currentLanguage = "zu" /\ currentFile = "clip.mp4"

\* The caption the badge shows before the percentage.
BadgeLabels == {"Confidence", "Certainty"}

(***************************************************************************)
(* C12. part_001: for every successful response with a confidence_score    *)
(* from 0 to 100 (in tenths), the step that presents it writes a badge     *)
(* with an integer percentage p in 0..100 that is a nearest integer to the *)
(* score, and starts the progress bar towards the width p%; once the bar   *)
(* has been set, its width is the value in the badge.                      *)
(***************************************************************************)
C12_RoundedPercentage ==
    /\ [][\A body \in ScoredBodies :
             (calls # <<>> /\ json_settles(1, body)) =>
                 \E p \in 0..100, label \in BadgeLabels :
                     /\ 10 * p - 5 <= The(The(body.detection_result).confidence_score)
                     /\ The(The(body.detection_result).confidence_score) <= 10 * p + 5
                     /\ text'.confidenceBadge = label \o ": " \o ToString(p) \o "%"
                     /\ timers' = <<ToString(p)>>]_vars
    /\ [](resultsActive /\ timers = <<>> =>
             \E label \in BadgeLabels :
                 text.confidenceBadge = label \o ": " \o progressWidth)

\* The score 91.4 has been presented as 91% and the bar has reached that width.
C12_Witness ==
    /\ text.confidenceBadge = "Certainty: 91%"
    /\ progressWidth = "91%"
    /\ timers = <<>>
    /\ resultsActive

\* The English default heading and the English default descriptions.
EnglishHeading(isAI) == IF isAI THEN "Likely AI-Generated" ELSE "Likely Human-Created"
EnglishDescs == {DefaultDesc(isAI, type) :
                    isAI \in BOOLEAN, type \in {"video", "image", "document"}}

(***************************************************************************)
(* C13. part_001: the step that presents a successful response writes as   *)
(* heading the backend's message when it is non-empty and the default      *)
(* heading otherwise, and as description the backend's warning when it is  *)
(* non-empty and otherwise the default description of the result's mode;   *)
(* the defaults are strings of the active language: the English ones when  *)
(* English is active, and no English text when another language is.        *)
(***************************************************************************)
C13_DefaultsInActiveLanguage ==
    [][\A i \in 1..Len(calls), body \in Bodies :
          (~BodyThrows(body) /\ json_settles(i, body)) =>
              LET result == Normalize(calls[i].type, body)
                  isAI == result.isAI = Some(TRUE)
              IN  /\ result.message # "" => text'.resultHeading = result.message
                  /\ result.warning # "" => text'.resultDesc = result.warning
                  /\ result.message = "" =>
                        IF currentLanguage = "en"
                        THEN text'.resultHeading = EnglishHeading(isAI)
                        ELSE text'.resultHeading \notin {EnglishHeading(TRUE),
                                                         EnglishHeading(FALSE)}
                  /\ result.warning = "" =>
                        IF currentLanguage = "en"
                        THEN text'.resultDesc = DefaultDesc(isAI, result.type)
                        ELSE text'.resultDesc \notin EnglishDescs]_vars

\* The English guidance items of both verdicts.
EnglishGuidance ==
    UNION {{updateAccordionContent(isAI)[k] :
               k \in 1..Len(updateAccordionContent(isAI))} : isAI \in BOOLEAN}

(***************************************************************************)
(* C14. part_001: the step that presents a result writes the guidance list *)
(* anew, one fixed list for an AI-generated result and a different fixed   *)
(* list for a human-created one, in the strings of the active language     *)
(* (the English items when English is active, no English item when another *)
(* language is), and leaves the "how to spot AI content" list as it was.   *)
(***************************************************************************)
C14_GuidanceInActiveLanguage ==
    [][\A i \in 1..Len(calls), body \in Bodies :
          (~BodyThrows(body) /\ json_settles(i, body)) =>
              LET isAI == Normalize(calls[i].type, body).isAI = Some(TRUE)
              IN  /\ text'.acc1Body # updateAccordionContent(~isAI)
                  /\ IF currentLanguage = "en"
                     THEN text'.acc1Body = updateAccordionContent(isAI)
                     ELSE \A k \in 1..Len(text'.acc1Body) :
                              text'.acc1Body[k] \notin EnglishGuidance
                  /\ text'.acc2Body = text.acc2Body]_vars

\* The language codes the page knows.
LanguageCodes == {"en", "zu", "xh", "st", "af"}

(***************************************************************************)
(* C15 as stated. part_001, the language menu: in every reachable state    *)
(* the language code is one of en, zu, xh, st, af; a click on the language *)
(* button flips the menu between open and closed; a click on an entry sets *)
(* the language code to the entry's code (en when the label is unmapped),  *)
(* closes the menu, shows the label on the button and leaves the static    *)
(* text of the page in the selected language; and every click outside the  *)
(* menu and the button (on the page, a tab, the clear control or the       *)
(* submit control) leaves the menu closed.                                 *)
(***************************************************************************)
C15_Original ==
    /\ currentLanguage \in LanguageCodes
    /\ langMenuDisplay \in {"none", "block"}
    /\ ENABLED langBtn_click
    /\ ~ENABLED (langBtn_click /\ langMenuDisplay' = langMenuDisplay)
    /\ \A selectedLang \in LangItems :
          /\ ENABLED langItem_click(selectedLang)
          /\ ~ENABLED (/\ langItem_click(selectedLang)
                       /\ ~(/\ currentLanguage' =
                                   IF selectedLang \in DOMAIN LANGUAGE_MAP
                                   THEN LANGUAGE_MAP[selectedLang] ELSE "en"
                            /\ langMenuDisplay' = "none"
                            /\ text'.langBtn = selectedLang
                            /\ StaticTextIn(text', currentLanguage')))
    /\ ENABLED document_click
    /\ ~ENABLED (document_click /\ langMenuDisplay' # "none")
    /\ \A tab \in Tabs : ~ENABLED (tab_click(tab) /\ langMenuDisplay' # "none")
    /\ ~ENABLED (clearBtn_click /\ langMenuDisplay' # "none")
    /\ ENABLED checkBtn_click =>
          ~ENABLED (checkBtn_click /\ langMenuDisplay' # "none")

(***************************************************************************)
(* C15 as amended. part_001, the language menu: as stated for the language *)
(* code, the language button and the entries; every click outside the menu *)
(* and the button leaves the menu closed, except a click on the submit     *)
(* control while it is disabled (a request is pending), which leaves the   *)
(* menu as it is, open or closed.                                          *)
(***************************************************************************)
C15_LanguageMenu ==
    /\ currentLanguage \in LanguageCodes
    /\ langMenuDisplay \in {"none", "block"}
    /\ ENABLED langBtn_click
    /\ ~ENABLED (langBtn_click /\ langMenuDisplay' = langMenuDisplay)
    /\ \A selectedLang \in LangItems :
          /\ ENABLED langItem_click(selectedLang)
          /\ ~ENABLED (/\ langItem_click(selectedLang)
                       /\ ~(/\ currentLanguage' =
                                   IF selectedLang \in DOMAIN LANGUAGE_MAP
                                   THEN LANGUAGE_MAP[selectedLang] ELSE "en"
                            /\ langMenuDisplay' = "none"
                            /\ text'.langBtn = selectedLang
                            /\ StaticTextIn(text', currentLanguage')))
    /\ ENABLED document_click
    /\ ~ENABLED (document_click /\ langMenuDisplay' # "none")
    /\ \A tab \in Tabs : ~ENABLED (tab_click(tab) /\ langMenuDisplay' # "none")
    /\ ~ENABLED (clearBtn_click /\ langMenuDisplay' # "none")
    /\ ~checkBtnDisabled =>
          ~ENABLED (checkBtn_click /\ langMenuDisplay' # "none")
    /\ checkBtnDisabled =>
          /\ ENABLED checkBtn_click
          /\ ~ENABLED (checkBtn_click /\ langMenuDisplay' # langMenuDisplay)

\* The unmapped entry has been selected after isiZulu, and the menu has been
\* opened again while a request is pending.
C15_Witness ==
    /\ text.langBtn = "Setswana"
    /\ currentLanguage = "en"
    /\ calls # <<>> /\ calls[1].language = "zu"
    /\ langMenuDisplay = "block"
    /\ checkBtnDisabled

\* A click on the tab of mode tab, in whichever controller is loaded.
AnyTabClick(tab) == tab_click(tab) \/ Main_tab_click(tab)

\* The mode variable of the controller that is loaded.
ModeVariable == IF MainLoaded THEN currentMode ELSE currentTab

(***************************************************************************)
(* C16. In part_001 and in Main.js: in every reachable state exactly one   *)
(* tab carries the class 'active' and the controller's mode variable       *)
(* (currentTab, currentMode) is that tab's mode; a tab click leaves the    *)
(* clicked tab the active one; and no other event changes the active tab   *)
(* or the mode variable, so the active tab is the one clicked last.        *)
(***************************************************************************)
C16_OneActiveTab ==
    /\ [](Cardinality(tabActive) = 1 /\ tabActive = {ModeVariable})
    /\ [][\A tab \in Tabs : AnyTabClick(tab) => tabActive' = {tab}]_vars
    /\ [][(tabActive' # tabActive \/ ModeVariable' # ModeVariable) =>
              \E tab \in Tabs : AnyTabClick(tab)]_vars

\* part_001 with the image tab clicked last.
C16_Witness ==
    /\ ~MainLoaded
    /\ tabActive = {"image"}
    /\ currentTab = "image"
    /\ accept = AcceptOf("image")

\* The file-type constraints that count as the one of a mode: none for text,
\* and for image and video the list either controller uses.
ConstraintsOf(mode) ==
    CASE mode = "text"  -> {""}
      [] mode = "image" -> {"image/*", ".jpg,.jpeg,.png,.webp,.bmp"}
      [] mode = "video" -> {"video/*", ".mp4,.mov,.avi,.mkv,.webm"}

(***************************************************************************)
(* C17. In Main.js, in every reachable state the drop area holds the one   *)
(* widget of the current mode (the textarea for text, a file input         *)
(* otherwise) with that mode's file-type constraint; in part_001, once a   *)
(* tab has been clicked, the accept attribute of the file input is the     *)
(* constraint of the current mode. The constraint of text is none, that of *)
(* image the image allow-list and that of video the video allow-list.      *)
(***************************************************************************)
C17_WidgetOfMode ==
    /\ MainLoaded =>
          /\ dropArea.kind = IF currentMode = "text" THEN "textarea" ELSE "file"
          /\ dropArea.accept \in ConstraintsOf(currentMode)
    /\ (~MainLoaded /\ accept # "(markup)") => accept \in ConstraintsOf(currentTab)

\* File file is staged in the primed state: the staged input, the file-name
\* indicator and the icon of its media type.
StagedNext(file) ==
    /\ currentFile' = file
    /\ text'.fileName = file
    /\ text'.fileIcon = CASE FileType(file) = "video/mp4" -> "video"
                          [] FileType(file) = "image/png" -> "image"
                          [] OTHER -> "document"

\* The mode, the language and the panels.
ModeLanguagePanel ==
    <<currentTab, tabActive, accept, currentLanguage, uploaderActive, resultsActive>>

(***************************************************************************)
(* C18. part_001: from every reachable state and for every file, a drop of *)
(* the file on the drop area and a selection of the file in the picker can *)
(* both be performed, both leave the file staged with the same file-name   *)
(* indicator and the same icon, and neither changes the mode, the language *)
(* or the panels.                                                          *)
(***************************************************************************)
C18_DropIsSelect ==
    \A file \in Files :
        /\ ENABLED dropArea_drop(file)
        /\ ENABLED fileInput_change(file)
        /\ ~ENABLED (dropArea_drop(file) /\ ~StagedNext(file))
        /\ ~ENABLED (fileInput_change(file) /\ ~StagedNext(file))
        /\ ~ENABLED (dropArea_drop(file) /\ ModeLanguagePanel' # ModeLanguagePanel)
        /\ ~ENABLED (fileInput_change(file) /\ ModeLanguagePanel' # ModeLanguagePanel)

\* An image is staged on the video tab while a result is shown in isiZulu.
C18_Witness ==
    /\ currentFile = "photo.png"
    /\ text.fileName = "photo.png"
    /\ text.fileIcon = "image"
    /\ currentTab = "video"
    /\ currentLanguage = "zu"
    /\ resultsActive

(***************************************************************************)
(* C19. part_001: in every reachable state with no request pending, the    *)
(* label of the submit control is the 'checkBtn' string of the active      *)
(* language, whatever language selections and submissions came before.     *)
(***************************************************************************)
C19_SubmitLabelLocalized ==
    calls = <<>> => text.checkBtn = Trans(currentLanguage).checkBtn

(***************************************************************************)
(* C20. part_001: the results panel is never active while the staged input *)
(* is empty; in particular the response to a request that was pending when *)
(* the user cleared does not bring the results panel back.                 *)
(***************************************************************************)
C20_ClearNotUndone ==
    /\ [](resultsActive => currentFile # NoFile)
    /\ [][(currentFile = NoFile /\ uploaderActive /\ ~resultsActive) =>
              (uploaderActive' /\ ~resultsActive')]_vars

\* The kind of result each endpoint's function returns.
KindOfEndpoint(url) ==
    CASE url = "/api/detect-with-audio" -> "video"
      [] url = "/api/detect-image"      -> "image"
      [] url = "/api/detect-document"   -> "document"

\* What a submit click fixes of the request it issues.
FixedAtClick(call) == <<call.url, call.language, call.file, call.type>>

(***************************************************************************)
(* C21. part_001: a tab click and a language selection leave the pending   *)
(* requests as they are and issue none; as long as a request is pending    *)
(* its endpoint, language parameter, file and kind stay those fixed at the *)
(* submit click, the kind being the one of the endpoint; and when the      *)
(* response carries no warning, the description presented is the default   *)
(* of the request's kind, whichever tab is selected when it arrives.       *)
(***************************************************************************)
C21_PendingRequestFixed ==
    /\ [](\A i \in 1..Len(calls) : calls[i].type = KindOfEndpoint(calls[i].url))
    /\ [][/\ calls' # calls =>
                /\ \A tab \in Tabs : ~tab_click(tab)
                /\ \A selectedLang \in LangItems : ~langItem_click(selectedLang)
          /\ Len(calls') = Len(calls) =>
                \A i \in 1..Len(calls) :
                    FixedAtClick(calls'[i]) = FixedAtClick(calls[i])
          /\ Len(calls') < Len(calls) =>
                \A i \in 1..Len(calls), body \in Bodies :
                    (/\ ~BodyThrows(body)
                     /\ The(body.detection_result).warning = None
                     /\ json_settles(i, body)) =>
                        text'.resultDesc =
                            DefaultDesc(The(body.detection_result).is_ai_generated
                                            = Some(TRUE),
                                        KindOfEndpoint(calls[i].url))]_vars

\* A video request submitted in English is pending at response.json() after the
\* image tab has been clicked and isiZulu selected.
C21_Witness ==
    /\ Len(calls) = 1
    /\ calls[1].url = "/api/detect-with-audio"
    /\ calls[1].language = "en"
    /\ calls[1].phase = "json"
    /\ currentTab = "image"
    /\ currentLanguage = "zu"

====
